---- MODULE Spec2Model ----
(***************************************************************************)
(* Model of notebooks/thermal/Thermal.ipynb: a notebook that builds a      *)
(* config dictionary, loads a thermal trace, constructs an Analyzer and    *)
(* evaluates statements over the trace's events.  The notebook's cells run *)
(* top to bottom; the statements are kept as expression trees and are      *)
(* evaluated with the pandas / numpy meaning of their operators.           *)
(***************************************************************************)
EXTENDS Integers, Sequences, FiniteSets, TLC

VARIABLES pc, trace, qrtSetting, config, run, t, result, out, Out

vars == <<pc, trace, qrtSetting, config, run, t, result, out, Out>>

(* ---------------- bounds of the explored inputs ---------------- *)
MaxIn == 2
MaxGov == 1
MaxTemp == 3

(* ---------------- names defined by the notebook ---------------- *)
BIG == "000000f0"
LITTLE == "0000000f"

BIG_FAIL == "FAIL: Dynamic Power is NOT Zero when load is Zero for the BIG cluster"
BIG_PASS == "PASS: Dynamic Power is Zero when load is Zero for the BIG cluster"
LITTLE_FAIL == "FAIL: Dynamic Power is NOT Zero when load is Zero for the LITTLE cluster"
LITTLE_PASS == "PASS: Dynamic Power is Zero when load is Zero for the LITTLE cluster"
GOV_FAIL == "FAIL: The Governor is allocating power > sustainable when T > CONTROL_TEMP"
GOV_PASS == "PASS: The Governor is allocating power <= sustainable when T > CONTROL_TEMP"

(* ---------------- dictionaries ---------------- *)
EmptyDict == [k \in {} |-> 0]

DictSet(d, k, v) == [x \in (DOMAIN d) \cup {k} |-> IF x = k THEN v ELSE d[x]]

(* cell 1 with TEMP_MARGIN never assigned *)
ConfigDict_NoMargin(qrt) ==
    DictSet(DictSet(DictSet(DictSet(DictSet(DictSet(DictSet(DictSet(DictSet(
        EmptyDict,
        "THERMAL", "Thermal"),
        "OUT", "CpuOutPower"),
        "IN", "CpuInPower"),
        "PID", "PIDController"),
        "GOVERNOR", "ThermalGovernor"),
        "CONTROL_TEMP", 77000),
        "SUSTAINABLE_POWER", 2500),
        "EXPECTED_TEMP_QRT", qrt),
        "EXPECTED_STD_PCT", 5)

(* cell 1: config = {} followed by its ten assignments, in order; qrt is   *)
(* the value written for EXPECTED_TEMP_QRT (95 in the repository)          *)
ConfigDict(qrt) ==
    DictSet(DictSet(DictSet(DictSet(DictSet(DictSet(DictSet(DictSet(DictSet(DictSet(
        EmptyDict,
        "THERMAL", "Thermal"),
        "OUT", "CpuOutPower"),
        "IN", "CpuInPower"),
        "PID", "PIDController"),
        "GOVERNOR", "ThermalGovernor"),
        "CONTROL_TEMP", 77000),
        "TEMP_MARGIN", 2500),
        "SUSTAINABLE_POWER", 2500),
        "EXPECTED_TEMP_QRT", qrt),
        "EXPECTED_STD_PCT", 5)

(* ---------------- statements, as expression trees ---------------- *)
Num(v) == [op |-> "num", v |-> v]
Name(n) == [op |-> "name", name |-> n]
Col(e, c) == [op |-> "col", ev |-> e, col |-> c]
Bin(o, l, r) == [op |-> o, l |-> l, r |-> r]
Call(f, a) == [op |-> "call", fn |-> f, args |-> a]

(* "((IN:load0 + IN:load1 + IN:load2 + IN:load3) == 0) & (IN:dynamic_power > 0)" *)
StmtLoadPower ==
    Bin("&",
        Bin("==",
            Bin("+", Bin("+", Bin("+", Col("IN", "load0"), Col("IN", "load1")),
                              Col("IN", "load2")),
                     Col("IN", "load3")),
            Num(0)),
        Bin(">", Col("IN", "dynamic_power"), Num(0)))

(* "(GOVERNOR:current_temperature > CONTROL_TEMP) & (PID:output > SUSTAINABLE_POWER)" *)
StmtGovernor ==
    Bin("&",
        Bin(">", Col("GOVERNOR", "current_temperature"), Name("CONTROL_TEMP")),
        Bin(">", Col("PID", "output"), Name("SUSTAINABLE_POWER")))

(* the percentile statement compared against CONTROL_TEMP alone *)
StmtPercentile_NoMargin ==
    Bin("<",
        Call("numpy.percentile", <<Col("THERMAL", "temp"), Num(95)>>),
        Name("CONTROL_TEMP"))

(* "numpy.percentile(THERMAL:temp, 95) < (CONTROL_TEMP + TEMP_MARGIN)" *)
StmtPercentile ==
    Bin("<",
        Call("numpy.percentile", <<Col("THERMAL", "temp"), Num(95)>>),
        Bin("+", Name("CONTROL_TEMP"), Name("TEMP_MARGIN")))

(* "numpy.mean(THERMAL:temp) <= CONTROL_TEMP" *)
StmtMean ==
    Bin("<=", Call("numpy.mean", <<Col("THERMAL", "temp")>>), Name("CONTROL_TEMP"))

(* "(numpy.std(THERMAL:temp) * 100.0) / numpy.mean(THERMAL:temp)" *)
StmtStd ==
    Bin("/",
        Bin("*", Call("numpy.std", <<Col("THERMAL", "temp")>>), Num(100)),
        Call("numpy.mean", <<Col("THERMAL", "temp")>>))

Statements == {StmtLoadPower, StmtGovernor, StmtPercentile, StmtMean, StmtStd}

RECURSIVE EventNames(_)
(* the event prefixes (before ':') a statement uses *)
EventNames(e) ==
    CASE e.op = "col" -> {e.ev}
      [] e.op \in {"num", "name"} -> {}
      [] e.op = "call" -> UNION {EventNames(e.args[i]) : i \in DOMAIN e.args}
      [] OTHER -> EventNames(e.l) \cup EventNames(e.r)

RECURSIVE ConstNames(_)
(* the bare constants a statement uses *)
ConstNames(e) ==
    CASE e.op = "name" -> {e.name}
      [] e.op \in {"num", "col"} -> {}
      [] e.op = "call" -> UNION {ConstNames(e.args[i]) : i \in DOMAIN e.args}
      [] OTHER -> ConstNames(e.l) \cup ConstNames(e.r)

(* ---------------- values of the expression evaluator ---------------- *)
(* a scalar number is the fraction num/den with den > 0; a vector is a     *)
(* column of integers or booleans; Float is a real number the model does   *)
(* not track (the standard deviation); Err is a raised exception           *)
Sc(n, d) == [t |-> "sc", num |-> n, den |-> d]
Vec(s) == [t |-> "vec", v |-> s]
Bool(b) == [t |-> "bool", b |-> b]
Float == [t |-> "float"]
Err == [t |-> "err"]

(* ---------------- trace events ---------------- *)
(* the column each event class is pivoted on *)
Pivot(cls) ==
    CASE cls = "CpuInPower" -> "cpus"
      [] cls = "CpuOutPower" -> "cpus"
      [] cls = "Thermal" -> "id"
      [] OTHER -> "thermal_zone_id"

(* select=None is <<>>, select=x is <<x>> *)
NoSelect == <<>>

SelectRows(rows, cls, select) ==
    IF select = NoSelect THEN rows
    ELSE LET keep(r) == r[Pivot(cls)] = select[1] IN SelectSeq(rows, keep)

Column(rows, c) == [i \in 1..Len(rows) |-> rows[i][c]]

(* ---------------- numpy ---------------- *)
RECURSIVE Insert(_, _)
Insert(x, s) ==
    IF s = <<>> THEN <<x>>
    ELSE IF x <= Head(s) THEN <<x>> \o s
    ELSE <<Head(s)>> \o Insert(x, Tail(s))

RECURSIVE Sort(_)
Sort(s) == IF s = <<>> THEN <<>> ELSE Insert(Head(s), Sort(Tail(s)))

RECURSIVE Sum(_)
Sum(s) == IF s = <<>> THEN 0 ELSE Head(s) + Sum(Tail(s))

(* numpy.percentile(a, q), linear interpolation: the rank is q/100*(n-1);  *)
(* the value between the two nearest ranks, as a fraction over 100         *)
Percentile(a, q) ==
    LET s == Sort(a)
        n == Len(s)
        k == (q * (n - 1)) \div 100
        f == (q * (n - 1)) % 100
    IN IF f = 0 THEN Sc(s[k + 1] * 100, 100)
       ELSE Sc(s[k + 1] * (100 - f) + s[k + 2] * f, 100)

(* numpy.mean(a) *)
Mean(a) == Sc(Sum(a), Len(a))

(* ---------------- the statement evaluator ---------------- *)
(* o applied to two raw elements of columns *)
ElemOp(o, x, y) ==
    CASE o = "+" -> x + y
      [] o = "==" -> x = y
      [] o = ">" -> x > y
      [] o = "<" -> x < y
      [] o = "<=" -> x <= y
      [] o = "&" -> x /\ y

(* o applied to two scalars *)
ScalarOp(o, a, b) ==
    CASE o = "+" -> Sc(a.num * b.den + b.num * a.den, a.den * b.den)
      [] o = "==" -> Bool(a.num * b.den = b.num * a.den)
      [] o = ">" -> Bool(a.num * b.den > b.num * a.den)
      [] o = "<" -> Bool(a.num * b.den < b.num * a.den)
      [] o = "<=" -> Bool(a.num * b.den <= b.num * a.den)

(* pandas broadcasting of a binary operator *)
BinOp(o, a, b) ==
    CASE a.t = "err" \/ b.t = "err" -> Err
      [] a.t # "err" /\ b.t # "err" /\ (a.t = "float" \/ b.t = "float") -> Float
      [] a.t = "vec" /\ b.t = "vec" ->
            Vec([i \in 1..Len(a.v) |-> ElemOp(o, a.v[i], b.v[i])])
      [] a.t = "vec" /\ b.t = "sc" ->
            Vec([i \in 1..Len(a.v) |-> ElemOp(o, a.v[i], b.num \div b.den)])
      [] a.t = "sc" /\ b.t = "sc" -> ScalarOp(o, a, b)
      [] a.t = "bool" /\ b.t = "bool" -> Bool(ElemOp(o, a.b, b.b))

(* a numpy function applied to evaluated arguments *)
CallFn(fn, a) ==
    CASE \E i \in DOMAIN a : a[i].t = "err" -> Err
      [] OTHER ->
         CASE fn = "numpy.percentile" -> Percentile(a[1].v, a[2].num \div a[2].den)
           [] fn = "numpy.mean" -> Mean(a[1].v)
           [] fn = "numpy.std" -> Float

RECURSIVE Eval(_, _, _)
(* the value of statement e for Analyzer an: names are looked up in the    *)
(* Analyzer's config, events in its run; a name config lacks raises        *)
Eval(e, an, select) ==
    CASE e.op = "num" -> Sc(e.v, 1)
      [] e.op = "name" ->
            IF e.name \in DOMAIN an.config THEN Sc(an.config[e.name], 1) ELSE Err
      [] e.op = "col" ->
            IF e.ev \in DOMAIN an.config
            THEN LET cls == an.config[e.ev]
                 IN Vec(Column(SelectRows(an.run[cls], cls, select), e.col))
            ELSE Err
      [] e.op = "call" ->
            CallFn(e.fn, [i \in DOMAIN e.args |-> Eval(e.args[i], an, select)])
      [] OTHER -> BinOp(e.op, Eval(e.l, an, select), Eval(e.r, an, select))

(* Analyzer(run, config) *)
Analyzer(r, c) == [run |-> r, config |-> c]

(* the rows of a boolean column that hold True *)
TrueRows(v) == LET isTrue(i) == v[i] IN SelectSeq([i \in 1..Len(v) |-> i], isTrue)

(* Analyzer.getStatement: with reference=True a boolean column is reduced  *)
(* to the rows where it is True                                            *)
getStatement(an, stmt, reference, select) ==
    LET r == Eval(stmt, an, select)
    IN IF r.t = "vec" /\ reference THEN Vec(TrueRows(r.v)) ELSE r

(* Analyzer.assertStatement: the truth of the statement *)
assertStatement(an, stmt, select) ==
    LET r == Eval(stmt, an, select)
    IN CASE r.t = "vec" -> Bool(\A i \in 1..Len(r.v) : r.v[i])
         [] OTHER -> r

(* ---------------- the traces explored ---------------- *)
RECURSIVE SeqsUpTo(_, _)
(* the sequences over S of length at most n *)
SeqsUpTo(S, n) ==
    IF n = 0 THEN {<<>>}
    ELSE LET shorter == SeqsUpTo(S, n - 1)
         IN shorter \cup {Append(q, x) : q \in {r \in shorter : Len(r) = n - 1}, x \in S}

LoadValues == {<<0, 0, 0, 0>>, <<0, 1, 0, 2>>}
PowerValues == {0, 7}
GovTempValues == {77000, 77001}
PidOutputValues == {2499, 2500, 2501}
TempValues == {0, 77000, 79499, 79500, 80000}
QrtValues == {50, 95}

(* cpu_in_power events *)
InRows ==
    {[cpus |-> c, load0 |-> l[1], load1 |-> l[2], load2 |-> l[3], load3 |-> l[4],
      dynamic_power |-> p] : c \in {BIG, LITTLE}, l \in LoadValues, p \in PowerValues}

(* one governor tick: the thermal_power_allocator and                      *)
(* thermal_power_allocator_pid events it emits, as (temperature, output)   *)
GovTicks == GovTempValues \X PidOutputValues

GovRows(ticks) ==
    [i \in 1..Len(ticks) |-> [thermal_zone_id |-> 0, current_temperature |-> ticks[i][1]]]

PidRows(ticks) ==
    [i \in 1..Len(ticks) |-> [thermal_zone_id |-> 0, output |-> ticks[i][2]]]

ThermalRows(temps) == [i \in 1..Len(temps) |-> [id |-> 0, temp |-> temps[i]]]

Trace(inRows, ticks, temps) ==
    [CpuInPower |-> inRows, CpuOutPower |-> <<>>,
     ThermalGovernor |-> GovRows(ticks), PIDController |-> PidRows(ticks),
     Thermal |-> ThermalRows(temps)]

(* the state before the first cell runs *)
InitNotebook ==
    /\ pc = "config"
    /\ config = EmptyDict
    /\ run = Trace(<<>>, <<>>, <<>>)
    /\ t = Analyzer(Trace(<<>>, <<>>, <<>>), EmptyDict)
    /\ result = Vec(<<>>)
    /\ out = <<>>
    /\ Out = EmptyDict

(* any power and governor events; one temperature reading *)
Init ==
    /\ \E inRows \in SeqsUpTo(InRows, MaxIn), ticks \in SeqsUpTo(GovTicks, MaxGov) :
          trace = Trace(inRows, ticks, <<70000>>)
    /\ qrtSetting = 95
    /\ InitNotebook

(* any non-empty temperature readings and any EXPECTED_TEMP_QRT *)
InitStats ==
    /\ \E temps \in SeqsUpTo(TempValues, MaxTemp) \ {<<>>} :
          trace = Trace(<<>>, <<>>, temps)
    /\ qrtSetting \in QrtValues
    /\ InitNotebook

(* ---------------- the cells ---------------- *)
(* cell 1 *)
Configure ==
    /\ pc = "config"
    /\ config' = ConfigDict(qrtSetting)
    /\ pc' = "run"
    /\ UNCHANGED <<trace, qrtSetting, run, t, result, out, Out>>

(* cell 2: run = trappy.Run(TRACE, "SomeBenchMark") *)
LoadRun ==
    /\ pc = "run"
    /\ run' = trace
    /\ pc' = "analyzer"
    /\ UNCHANGED <<trace, qrtSetting, config, t, result, out, Out>>

(* cell 3: t = Analyzer(run, config) *)
CreateAnalyzer ==
    /\ pc = "analyzer"
    /\ t' = Analyzer(run, config)
    /\ pc' = "big_get"
    /\ UNCHANGED <<trace, qrtSetting, config, run, result, out, Out>>

(* a getStatement call of cells 4 and 5: an exception ends the cell *)
GetStep(here, stmt, select, next, raised) ==
    /\ pc = here
    /\ LET r == getStatement(t, stmt, TRUE, select)
       IN IF r.t = "err"
          THEN pc' = raised /\ UNCHANGED result
          ELSE pc' = next /\ result' = r
    /\ UNCHANGED <<trace, qrtSetting, config, run, t, out, Out>>

(* the print with its else branch lost: pass is printed after fail too *)
PrintStep_NoElse(here, fail, pass, next) ==
    /\ pc = here
    /\ out' = (IF Len(result.v) # 0 THEN Append(out, fail) ELSE out) \o <<pass>>
    /\ pc' = next
    /\ UNCHANGED <<trace, qrtSetting, config, run, t, result, Out>>

(* if len(result): print fail  else: print pass *)
PrintStep(here, fail, pass, next) ==
    /\ pc = here
    /\ out' = Append(out, IF Len(result.v) # 0 THEN fail ELSE pass)
    /\ pc' = next
    /\ UNCHANGED <<trace, qrtSetting, config, run, t, result, Out>>

(* cell 4, first half *)
BigGet == GetStep("big_get", StmtLoadPower, <<BIG>>, "big_print", "gov_get")

BigPrint == PrintStep("big_print", BIG_FAIL, BIG_PASS, "little_get")

(* cell 4, second half: the call again passes select=BIG *)
LittleGet == GetStep("little_get", StmtLoadPower, <<BIG>>, "little_print", "gov_get")

LittlePrint == PrintStep("little_print", LITTLE_FAIL, LITTLE_PASS, "gov_get")

(* cell 5 *)
GovGet == GetStep("gov_get", StmtGovernor, <<0>>, "gov_print", "percentile")

GovPrint == PrintStep("gov_print", GOV_FAIL, GOV_PASS, "percentile")

(* a cell whose value is displayed as Out[n]; nothing is displayed when it raises *)
DisplayStep(here, n, value, next) ==
    /\ pc = here
    /\ Out' = IF value.t = "err" THEN Out ELSE DictSet(Out, n, value)
    /\ pc' = next
    /\ UNCHANGED <<trace, qrtSetting, config, run, t, result, out>>

(* cell 6 *)
PercentileCell ==
    DisplayStep("percentile", 6, assertStatement(t, StmtPercentile, NoSelect), "mean")

(* cell 7 *)
MeanCell == DisplayStep("mean", 7, assertStatement(t, StmtMean, <<0>>), "std")

(* cell 10 *)
StdCell == DisplayStep("std", 10, getStatement(t, StmtStd, FALSE, <<0>>), "done")

Next ==
    \/ Configure
    \/ LoadRun
    \/ CreateAnalyzer
    \/ BigGet
    \/ BigPrint
    \/ LittleGet
    \/ LittlePrint
    \/ GovGet
    \/ GovPrint
    \/ PercentileCell
    \/ MeanCell
    \/ StdCell

Spec == Init /\ [][Next]_vars

SpecStats == InitStats /\ [][Next]_vars

(* ---------------- what the claims speak of ---------------- *)
Printed(line) == \E i \in DOMAIN out : out[i] = line

Count(line) == Cardinality({i \in DOMAIN out : out[i] = line})

(* a cpu_in_power sample of cluster c with summed load 0 and dynamic power > 0 *)
ClusterViolates(c) ==
    \E i \in DOMAIN trace.CpuInPower :
        LET r == trace.CpuInPower[i]
        IN /\ r.cpus = c
           /\ r.load0 + r.load1 + r.load2 + r.load3 = 0
           /\ r.dynamic_power > 0

FailLine(c) == IF c = BIG THEN BIG_FAIL ELSE LITTLE_FAIL

PassLine(c) == IF c = BIG THEN BIG_PASS ELSE LITTLE_PASS

GovTemps == Column(trace.ThermalGovernor, "current_temperature")

PidOutputs == Column(trace.PIDController, "output")

Temps == Column(trace.Thermal, "temp")

(* C1: for each cluster C, the line printed for C is PASS only if no sample *)
(* of C has summed load 0 and dynamic power > 0, and it is FAIL if C has    *)
(* such a sample.                                                           *)
C1_PerCluster ==
    pc = "done" =>
        \A c \in {BIG, LITTLE} :
            /\ Printed(PassLine(c)) => ~ClusterViolates(c)
            /\ ClusterViolates(c) => Printed(FailLine(c))

(* C2: the governor check prints PASS only if every sample with temperature *)
(* above CONTROL_TEMP has granted power strictly below SUSTAINABLE_POWER;   *)
(* a sample above CONTROL_TEMP with power not below it makes it print FAIL. *)
C2_StrictlyBelowSustainable ==
    pc = "done" =>
        /\ Printed(GOV_PASS) =>
              \A i \in DOMAIN GovTemps : GovTemps[i] > 77000 => PidOutputs[i] < 2500
        /\ (\E i \in DOMAIN GovTemps : GovTemps[i] > 77000 /\ PidOutputs[i] >= 2500)
              => Printed(GOV_FAIL)

C4_MeanStrictlyBelow ==
    7 \in DOMAIN Out => (Out[7].b <=> Sum(Temps) < 77000 * Len(Temps))

(* C5: the percentile rank the percentile assertion uses is the configured  *)
(* EXPECTED_TEMP_QRT: the assertion's result is that percentile of the      *)
(* readings compared against CONTROL_TEMP + TEMP_MARGIN.                    *)
C5_ConfiguredRank ==
    6 \in DOMAIN Out =>
        (Out[6].b <=>
            ScalarOp("<", Percentile(Temps, t.config["EXPECTED_TEMP_QRT"]),
                     Sc(79500, 1)).b)

(* the three checks: the pc values before the line is printed, the pc right *)
(* after it, and the two lines                                              *)
Checks ==
    {[before |-> {"config", "run", "analyzer", "big_get", "big_print"},
      after |-> "little_get", fail |-> BIG_FAIL, pass |-> BIG_PASS],
     [before |-> {"config", "run", "analyzer", "big_get", "big_print",
                  "little_get", "little_print"},
      after |-> "gov_get", fail |-> LITTLE_FAIL, pass |-> LITTLE_PASS],
     [before |-> {"config", "run", "analyzer", "big_get", "big_print",
                  "little_get", "little_print", "gov_get", "gov_print"},
      after |-> "percentile", fail |-> GOV_FAIL, pass |-> GOV_PASS]}

OneLinePerCheck ==
    \A c \in Checks :
        /\ pc \in c.before => Count(c.fail) + Count(c.pass) = 0
        /\ pc \notin c.before =>
              /\ Count(c.fail) + Count(c.pass) = 1
              /\ pc = c.after =>
                    out[Len(out)] = (IF Len(result.v) > 0 THEN c.fail ELSE c.pass)

LinesAreKept ==
    /\ Len(out') >= Len(out)
    /\ \A i \in DOMAIN out : out'[i] = out[i]

(* C6: each of the three checks prints exactly one line per run, FAIL when  *)
(* its getStatement result has an entry and PASS when it is empty, and no   *)
(* later step removes or alters a line already printed.                     *)
C6_ExactlyOneLine == []OneLinePerCheck /\ [][LinesAreKept]_vars

(* a run whose checks disagree: BIG fails and the governor passes *)
C6_Witness ==
    /\ pc = "done"
    /\ Printed(BIG_FAIL)
    /\ Printed(GOV_PASS)
    /\ Len(out) = 3

(* C7: once the Analyzer is constructed, every event prefix and every bare  *)
(* constant of every statement is a key of the config it was given; the     *)
(* prefixes are IN, GOVERNOR, PID, THERMAL and the constants CONTROL_TEMP,  *)
(* SUSTAINABLE_POWER, TEMP_MARGIN.                                          *)
C7_NamesDefined ==
    pc \notin {"config", "run", "analyzer"} =>
        /\ \A s \in Statements : EventNames(s) \cup ConstNames(s) \subseteq DOMAIN t.config
        /\ UNION {EventNames(s) : s \in Statements} = {"IN", "GOVERNOR", "PID", "THERMAL"}
        /\ UNION {ConstNames(s) : s \in Statements}
              = {"CONTROL_TEMP", "SUSTAINABLE_POWER", "TEMP_MARGIN"}

(* every statement of the notebook has been evaluated and none raised *)
C7_Witness ==
    /\ pc = "done"
    /\ Len(out) = 3
    /\ DOMAIN Out = {6, 7, 10}

====
